---- MODULE Spec2Model ----
(***************************************************************************)
(* infranow: the Watcher (package monitor) and the Problem model.          *)
(*                                                                         *)
(* Time is in whole seconds since the process started.  The store          *)
(* w.problems maps a Problem.ID to a Problem; the Labels and Metrics       *)
(* fields of a Problem are Go maps, that is references: they are modelled  *)
(* as addresses into `heap`, so that a struct copy (pCopy := *p) copies    *)
(* the address and not the map.                                            *)
(***************************************************************************)
EXTENDS Integers, Sequences, FiniteSets, TLC

\* ------------------------------------------------------------------ bounds
MaxTicks == 3        \* clock advances explored around the store alone
MaxLoopTicks == 1    \* clock advances explored around the running watcher
MaxBatch == 2        \* longest batch one Detect call returns
MaxCount == 2        \* directly issued merges stop once a Count reaches this
MaxLimit == 2        \* largest maxConcurrency passed to NewWatcher
CoalesceWindow == 3  \* change-producing merges counted between two drains
MaxRuns == 3         \* executions the rule loops begin, all rules together
MaxBlast == 3        \* largest BlastRadius of a scored Problem
MaxSpans == 3        \* largest Persistence of a scored Problem, in ticker periods
MaxScored == 2       \* Problems scored side by side
MaxObjs == 2         \* distinct detectors that report the same name
MaxCalls == 3        \* Register and Unregister calls made on a Registry
MaxListed == 2       \* length of the lists handed to Compare
MaxQuery == 2        \* characters typed into the TUI's search field

\* ------------------------------------------------------- program constants
StaleSeconds == 60        \* now.Add(-1 * time.Minute)
HealthCheckSeconds == 30  \* 30*time.Second
JSONWaitSeconds == 30     \* time.After(30 * time.Second) of runJSONMode
ExitRuntimeError == 3     \* util.ExitRuntimeError
UpdateChanCap == 1        \* make(chan struct{}, 1)
TickerSeconds == 30       \* interval: 30 * time.Second
certCheckInterval == 60   \* certCheckInterval = 60

Rules == {"r1", "r2"}
IDs == {"x", "y"}
Severities == {"WARNING", "CRITICAL", "FATAL"}

\* What one sample of a query result turns into: the fields a detector fills.
Sample(id, sev, br, v) == [ID |-> id, Severity |-> sev, BlastRadius |-> br, Value |-> v]

Samples ==
    { Sample("x", "CRITICAL", 0, 1), Sample("x", "FATAL", 5, 2),
      Sample("y", "WARNING", 1, 1) }

\* The batches a Detect call can return: one Problem per sample, so an ID can
\* occur more than once.
Batches == UNION { [1..n -> Samples] : n \in 0..MaxBatch }

\* What a rule's query can find: each registered detector reports one kind of
\* problem, and the two rules report the same ID (they share the store).
Finds(r) == IF r = "r1" THEN Sample("x", "CRITICAL", 0, 1) ELSE Sample("x", "FATAL", 5, 2)

\* The batches rule r's Detect call returns in the watcher's run.
RuleBatches(r) == { b \in Batches : \A i \in DOMAIN b : b[i] = Finds(r) }

VARIABLES
    now,          \* time.Now()
    problems,     \* w.problems
    heap,         \* the Labels and Metrics maps, by address
    updateChan,   \* len(w.updateChan)
    exported,     \* the slice the last export call returned, held by its caller
    occ,          \* history: occurrences of an ID merged since its entry was inserted
    sinceDrain,   \* history: change-producing merges since the last drain
    last,         \* history: the last step; of a merge, how often each ID occurred
                  \* in the batch and the IDs it evicted; of an export, its order
    maxConcurrency,       \* w.maxConcurrency; 0 is unlimited (w.semaphore == nil)
    semaphore,            \* len(w.semaphore)
    prometheusHealthy,    \* w.prometheusHealthy
    lastPrometheusCheck,  \* w.lastPrometheusCheck
    lastSuccessfulQuery,  \* w.lastSuccessfulQuery
    queryCount,           \* w.queryCount
    errorCount,           \* w.errorCount
    stopped,              \* w.stopped
    closed,               \* close(w.updateChan) has run
    cancelled,            \* ctx.Done() is closed
    main,                 \* where Start is
    pc,                   \* where each rule's goroutine (runDetector) is
    found,                \* the batch each goroutine's Detect call returned
    tickPending,          \* len(ticker.C) of each goroutine's ticker
    lastProbe,            \* history: when w.provider.Health was last called
    scored,               \* the Problems a caller has scored, with their Score()
    detectors,            \* r.detectors of the Registry
    regLog,               \* history: the Register and Unregister calls so far
    answer,               \* what the last Get, All or Count call returned
    comparison,           \* the last call of baseline.Compare: arguments and result
    flags,                \* the command line flags of the monitor command
    cli,                  \* runMonitor in JSON mode: position, list read, output, exit
    ui,                   \* the TUI: its Model and where its waitForUpdate command is
    stopChan              \* w.stopChan: "open" or "closed"

storeVars == <<problems, heap, updateChan, exported, occ, sinceDrain>>
healthVars == <<prometheusHealthy, lastPrometheusCheck, lastSuccessfulQuery,
                queryCount, errorCount>>
loopVars == <<maxConcurrency, semaphore, stopped, closed, cancelled, main, pc,
              found, tickPending>>
regVars == <<detectors, regLog, answer>>
extVars == <<regVars, comparison, flags, cli, ui, stopChan>>
obsVars == <<lastProbe, scored, extVars>>
vars == <<now, storeVars, last, healthVars, loopVars, obsVars>>

\* The zero time.Time: long before the process started.
ZeroTime == 0 - 1000000

\* t.Before(u)
Before(t, u) == t < u

\* ----------------------------------------------------------------- Problem
UpdatePersistenceNoop(p) == p

\* p.Persistence = p.LastSeen.Sub(p.FirstSeen).Seconds()
UpdatePersistence(p) == [p EXCEPT !.Persistence = p.LastSeen - p.FirstSeen]

SeverityWeightFlat(s) == 10

\* severityWeight[p.Severity]
SeverityWeight(s) ==
    CASE s = "FATAL" -> 100
      [] s = "CRITICAL" -> 50
      [] s = "WARNING" -> 10
      [] OTHER -> 0

ScoreBySeverity(p) == SeverityWeight(p.Severity) * 36000

\* Score() * 36000: base * (1 + BlastRadius*0.1) * (1 + Persistence/3600)
Score(p) == SeverityWeight(p.Severity) * (10 + p.BlastRadius) * (3600 + p.Persistence)

\* -------------------------------------------------------------------- heap
\* The address a new map gets: the first one not in use.
Alloc(hp) == CHOOSE a \in 1..(Cardinality(DOMAIN hp) + 1) : a \notin DOMAIN hp

\* Labels: map[string]string{"service": service}
LabelsOf(s) == [k \in {"service"} |-> s.ID]

\* Metrics: map[string]float64{"error_rate": errorRate}
MetricsOf(s) == [k \in {"error_rate"} |-> s.Value]

Put(hp, a, m) == [b \in DOMAIN hp \cup {a} |-> IF b = a THEN m ELSE hp[b]]

\* The references the program still holds, in a fixed order of traversal: the
\* store's entries by ID, then the exported slice.
IDOrder == <<"x", "y">>

RECURSIVE StoreRefs(_, _)
StoreRefs(st, i) ==
    IF i > Len(IDOrder) THEN <<>>
    ELSE (IF IDOrder[i] \in DOMAIN st
          THEN <<st[IDOrder[i]].Labels, st[IDOrder[i]].Metrics>> ELSE <<>>)
         \o StoreRefs(st, i + 1)

RECURSIVE SliceRefs(_, _)
SliceRefs(ex, i) ==
    IF i > Len(ex) THEN <<>>
    ELSE <<ex[i].Labels, ex[i].Metrics>> \o SliceRefs(ex, i + 1)

Refs(st, ex) == StoreRefs(st, 1) \o SliceRefs(ex, 1)

\* An address is an identity and nothing more: after every step the maps are
\* renumbered in the order of Refs, and the maps nothing refers to any longer
\* are dropped (garbage collection).  Renumber gives the new address of a.
FirstAt(refs, a) == CHOOSE i \in DOMAIN refs : refs[i] = a /\ \A j \in 1..(i - 1) : refs[j] # a

Renumber(refs, a) ==
    Cardinality({ FirstAt(refs, refs[j]) : j \in 1..FirstAt(refs, a) })

MoveProblem(to, p) == [p EXCEPT !.Labels = to[@], !.Metrics = to[@]]

\* The store, the exported slice and the heap after collection.
Collect(hp, st, ex) ==
    LET refs == Refs(st, ex)
        live == { refs[i] : i \in DOMAIN refs }
        to == [a \in live |-> Renumber(refs, a)]
    IN  [problems |-> [id \in DOMAIN st |-> MoveProblem(to, st[id])],
         exported |-> [i \in DOMAIN ex |-> MoveProblem(to, ex[i])],
         heap |-> [n \in 1..Cardinality(live) |-> hp[CHOOSE a \in live : to[a] = n]]]

\* ----------------------------------------------------------- updateProblems
\* existing.Count++
BumpNot(n) == n

Bump(n) == n + 1

\* An existing entry found again at time t: Count, LastSeen and Metrics (the
\* new problem's map, at address ma) are set; UpdatePersistence follows.
TouchAll(e, t, ma) ==
    [e EXCEPT !.Count = Bump(@), !.FirstSeen = t, !.LastSeen = t, !.Metrics = ma]

Touch(e, t, ma) == [e EXCEPT !.Count = Bump(@), !.LastSeen = t, !.Metrics = ma]

\* A problem seen for the first time at time t, as the detector built it from
\* sample s (its maps at addresses la and ma): FirstSeen, LastSeen and Count
\* are set; UpdatePersistence follows.
FreshUncounted(s, t, la, ma) ==
    [ID |-> s.ID, Severity |-> s.Severity, BlastRadius |-> s.BlastRadius,
     FirstSeen |-> t, LastSeen |-> t, Count |-> 0, Persistence |-> 0,
     Labels |-> la, Metrics |-> ma]

\* Fresh with FirstSeen at the start of the process.
FreshBackdated(s, t, la, ma) ==
    [ID |-> s.ID, Severity |-> s.Severity, BlastRadius |-> s.BlastRadius,
     FirstSeen |-> 0, LastSeen |-> t, Count |-> 1, Persistence |-> 0,
     Labels |-> la, Metrics |-> ma]

Fresh(s, t, la, ma) ==
    [ID |-> s.ID, Severity |-> s.Severity, BlastRadius |-> s.BlastRadius,
     FirstSeen |-> t, LastSeen |-> t, Count |-> 1, Persistence |-> 0,
     Labels |-> la, Metrics |-> ma]

\* MergeOne with the stored entry taking the new detection's Severity and
\* BlastRadius as well.
MergeOneOverwrites(acc, s, t) ==
    LET st == acc.problems
        ma == Alloc(acc.heap)
        h1 == Put(acc.heap, ma, MetricsOf(s))
        la == Alloc(h1)
    IN  IF s.ID \in DOMAIN st
        THEN [problems |-> [st EXCEPT ![s.ID] =
                               [UpdatePersistence(Touch(@, t, ma))
                                   EXCEPT !.Severity = s.Severity,
                                          !.BlastRadius = s.BlastRadius]],
              heap |-> h1, updated |-> TRUE]
        ELSE [problems |-> [id \in DOMAIN st \cup {s.ID} |->
                               IF id = s.ID THEN UpdatePersistence(Fresh(s, t, la, ma))
                               ELSE st[id]],
              heap |-> Put(h1, la, LabelsOf(s)), updated |-> TRUE]

\* The loop body over one detected problem p (built from sample s), at time t.
MergeOne(acc, s, t) ==
    LET st == acc.problems
        ma == Alloc(acc.heap)
        h1 == Put(acc.heap, ma, MetricsOf(s))
        la == Alloc(h1)
    IN  IF s.ID \in DOMAIN st
        THEN [problems |-> [st EXCEPT ![s.ID] = UpdatePersistence(Touch(@, t, ma))],
              heap |-> h1, updated |-> TRUE]
        ELSE [problems |-> [id \in DOMAIN st \cup {s.ID} |->
                               IF id = s.ID THEN UpdatePersistence(Fresh(s, t, la, ma))
                               ELSE st[id]],
              heap |-> Put(h1, la, LabelsOf(s)), updated |-> TRUE]

RECURSIVE MergeLoop(_, _, _)
MergeLoop(acc, detected, t) ==
    IF detected = <<>> THEN acc
    ELSE MergeLoop(MergeOne(acc, Head(detected), t), Tail(detected), t)

\* p.LastSeen.Before(staleThreshold)
IsStaleUnlessSeenNow(p, t) == Before(p.LastSeen, t)

\* A threshold that no entry is ever behind.
IsStaleNever(p, t) == FALSE

IsStale(p, t) == Before(p.LastSeen, t - StaleSeconds)

\* The pruning loop.
PruneNothing(acc, t) == acc

Prune(acc, t) ==
    LET keep == { id \in DOMAIN acc.problems : ~IsStale(acc.problems[id], t) }
    IN  [acc EXCEPT !.problems = [id \in keep |-> acc.problems[id]],
                    !.updated = acc.updated \/ keep # DOMAIN acc.problems]

\* select { case w.updateChan <- struct{}{}: default: }
SendUnbounded(ch) == ch + 1

TrySend(ch) == IF ch < UpdateChanCap THEN ch + 1 ELSE ch

\* if updated { ... }
NotifyAlways(ch, updated) == TrySend(ch)

\* Notify without the send.
NotifyNever(ch, updated) == ch

Notify(ch, updated) == IF updated THEN TrySend(ch) ELSE ch

\* How often id occurs in a batch.
Occurrences(detected, id) == Cardinality({ i \in DOMAIN detected : detected[i].ID = id })

Min(a, b) == IF a < b THEN a ELSE b

\* updateProblems(detected), under w.mu, with the history variables.
UpdateProblems(detected) ==
    \E acc \in { Prune(MergeLoop([problems |-> problems, heap |-> heap, updated |-> FALSE],
                                detected, now), now) } :
    \E c \in { Collect(acc.heap, acc.problems, exported) } :
        /\ problems' = c.problems
        /\ exported' = c.exported
        /\ heap' = c.heap
        /\ updateChan' = Notify(updateChan, acc.updated)
        /\ occ' = [id \in IDs |->
                     IF id \in DOMAIN acc.problems
                     THEN (IF id \in DOMAIN problems THEN occ[id] ELSE 0)
                          + Occurrences(detected, id)
                     ELSE 0]
        /\ sinceDrain' = IF acc.updated
                         THEN Min(sinceDrain + 1, CoalesceWindow) ELSE sinceDrain
        /\ last' = [op |-> "merge", by |-> "none",
                    n |-> [id \in IDs |-> Occurrences(detected, id)],
                    evicted |-> DOMAIN problems \ DOMAIN acc.problems]

\* ----------------------------------------------------------------- actions
\* No read call of the Registry has returned since it last changed; no call
\* of Compare has been made.
NoAnswer == [op |-> "none"]

\* The flags at their defaults: --fail-on "", --save-baseline "",
\* --compare-baseline "", --fail-on-drift false, --export-file "".
NoFlags == [failOn |-> <<>>, save |-> FALSE, compare |-> FALSE, drift |-> FALSE,
            export |-> FALSE]

\* The monitor command before its flags are parsed.
NewRun == [pc |-> "args", t0 |-> 0, list |-> <<>>, printed |-> "none",
           exit |-> "none", err |-> "none"]

\* NewModel(watcher, ...) and Init(): the list is empty, the sort mode is
\* SortBySeverity, and the waitForUpdate command is blocked on the channel.
NewModel == [cmd |-> "blocked", msg |-> <<>>, problems |-> <<>>, sortMode |-> 0,
             paused |-> FALSE, searchMode |-> FALSE, searchQuery |-> <<>>,
             filteredCount |-> 0]

NoOp == [op |-> "none", by |-> "none", n |-> [id \in IDs |-> 0], evicted |-> {}]

\* The batches explored: those that leave every Count within MaxCount.
Fits(batch) ==
    \A id \in IDs :
        (IF id \in DOMAIN problems THEN problems[id].Count ELSE 0)
            + Occurrences(batch, id) <= MaxCount

\* A direct call of updateProblems, as the package's tests make it.
MergeCall ==
    \E batch \in Batches :
        /\ Fits(batch)
        /\ UpdateProblems(batch)
        /\ UNCHANGED <<obsVars, now, healthVars, loopVars>>

\* Time passes; every running ticker fires (a tick is dropped when one is
\* already pending).  A call of w.provider.Health that is 30 seconds old by
\* then is no longer remembered: no later call can be too close to it.
Elapse(limit) ==
    /\ now < limit * TickerSeconds
    /\ now' = now + TickerSeconds
    /\ tickPending' = [r \in Rules |-> tickPending[r] \/ pc[r] \notin {"idle", "done"}]
    /\ lastProbe' = IF now' - lastProbe < HealthCheckSeconds THEN lastProbe ELSE ZeroTime
    /\ last' = NoOp
    /\ UNCHANGED <<scored, extVars, storeVars, healthVars, maxConcurrency, semaphore, stopped, closed,
                   cancelled, main, pc, found>>

Tick == Elapse(MaxLoopTicks)

TickStore == Elapse(MaxTicks)

\* The consumer's <-w.UpdateChan()
Drain ==
    /\ updateChan > 0
    /\ updateChan' = updateChan - 1
    /\ sinceDrain' = 0
    /\ last' = NoOp
    /\ UNCHANGED <<obsVars, now, problems, heap, exported, occ, healthVars, loopVars>>

\* ----------------------------------------------------------------- exports
\* The orders in which the store's IDs can be listed.
Listings ==
    LET n == Cardinality(DOMAIN problems)
    IN  { l \in [1..n -> DOMAIN problems] : \A i, j \in 1..n : i # j => l[i] # l[j] }

\* pCopy := *p: the struct is copied, the Labels and Metrics addresses with it.
CopyShared(p) == p

ByScore(p, q) == Score(p) > Score(q)

ByRecency(p, q) == p.LastSeen > q.LastSeen

ByCount(p, q) == p.Count > q.Count

\* The less function each export hands to sort.Slice.
Less(order, p, q) ==
    CASE order = "score" -> ByScore(p, q)
      [] order = "recency" -> ByRecency(p, q)
      [] order = "count" -> ByCount(p, q)

\* list[i], list[j] = list[j], list[i]
Swap(l, i, j) == [l EXCEPT ![i] = l[j], ![j] = l[i]]

\* sort.Slice on a slice of at most 12 elements is an insertion sort:
\* for j := i; j > a && less(j, j-1); j-- { swap(j, j-1) }
RECURSIVE Sink(_, _, _)
Sink(l, j, order) ==
    IF j > 1 /\ Less(order, l[j], l[j - 1])
    THEN Sink(Swap(l, j, j - 1), j - 1, order)
    ELSE l

\* for i := a + 1; i < b; i++ { ... }
RECURSIVE InsertionSort(_, _, _)
InsertionSort(l, i, order) ==
    IF i > Len(l) THEN l ELSE InsertionSort(Sink(l, i, order), i + 1, order)

SortSliceSkipped(l, order) == l

\* sort.Slice(list, less)
SortSlice(l, order) == InsertionSort(l, 2, order)

\* The copies of the entries, appended in the order the map iteration
\* yields them (any order), then sorted.
SortedCopies(order) ==
    { SortSlice([i \in DOMAIN l |-> CopyShared(problems[l[i]])], order) : l \in Listings }

\* An export call returns; the caller holds the slice.
Export(list, order) ==
    \E c \in { Collect(heap, problems, list) } :
        /\ exported' = c.exported
        /\ problems' = c.problems
        /\ heap' = c.heap
        /\ last' = [NoOp EXCEPT !.op = "export", !.by = order]
        /\ UNCHANGED <<obsVars, now, updateChan, occ, sinceDrain, healthVars, loopVars>>

GetProblems == \E list \in SortedCopies("score") : Export(list, "score")

GetProblemsByRecency == \E list \in SortedCopies("recency") : Export(list, "recency")

GetProblemsByCount == \E list \in SortedCopies("count") : Export(list, "count")

TallyNothing(summary, ids) == summary

\* for _, p := range w.problems { summary[p.Severity]++ }
RECURSIVE Tally(_, _)
Tally(summary, ids) ==
    IF ids = {}
    THEN summary
    ELSE LET id == CHOOSE i \in ids : TRUE
             sev == problems[id].Severity
         IN  Tally([k \in DOMAIN summary \cup {sev} |->
                       (IF k \in DOMAIN summary THEN summary[k] ELSE 0)
                       + (IF k = sev THEN 1 ELSE 0)],
                   ids \ {id})

\* GetSummary: a map with the three severities at 0, then the tally, under
\* w.mu.RLock.
GetSummary == Tally([s \in Severities |-> 0], DOMAIN problems)

\* What the caller of an export does, once, with the slice it just got.  As
\* the package's test does: problems[0].Count = 999
Tampered == 999

MutateField ==
    \E i \in DOMAIN exported :
        /\ last.op = "export"
        /\ exported' = [exported EXCEPT ![i].Count = Tampered]
        /\ last' = [NoOp EXCEPT !.op = "mutate"]
        /\ UNCHANGED <<obsVars, now, problems, heap, updateChan, occ, sinceDrain, healthVars,
                       loopVars>>

\* problems[i].Labels["service"] = "tampered": an entry is changed.
MutateLabels ==
    \E i \in DOMAIN exported :
        /\ last.op = "export"
        /\ heap' = [heap EXCEPT ![exported[i].Labels]["service"] = "tampered"]
        /\ last' = [NoOp EXCEPT !.op = "mutate"]
        /\ UNCHANGED <<obsVars, now, problems, exported, updateChan, occ, sinceDrain,
                       healthVars, loopVars>>

\* problems[i].Metrics["injected"] = 0: an entry is added.
MutateMetrics ==
    \E i \in DOMAIN exported :
        /\ last.op = "export"
        /\ heap' = [heap EXCEPT ![exported[i].Metrics] =
                       [k \in DOMAIN @ \cup {"injected"} |-> IF k = "injected" THEN 0 ELSE @[k]]]
        /\ last' = [NoOp EXCEPT !.op = "mutate"]
        /\ UNCHANGED <<obsVars, now, problems, exported, updateChan, occ, sinceDrain,
                       healthVars, loopVars>>

\* The caller drops the slice.
Discard ==
    /\ exported # <<>>
    /\ \E c \in { Collect(heap, problems, <<>>) } :
        /\ exported' = c.exported
        /\ problems' = c.problems
        /\ heap' = c.heap
    /\ last' = NoOp
    /\ UNCHANGED <<obsVars, now, updateChan, occ, sinceDrain, healthVars, loopVars>>

\* ------------------------------------------------------------ orchestrator
\* Start: one goroutine per registered detector, each running its detector
\* immediately; then Start waits for ctx.Done().
Start ==
    /\ main = "new"
    /\ main' = "waiting"
    /\ pc' = [r \in Rules |-> "acquire"]
    /\ last' = NoOp
    /\ UNCHANGED <<obsVars, now, storeVars, healthVars, maxConcurrency, semaphore, stopped,
                   closed, cancelled, found, tickPending>>

\* The caller cancels the context.
Cancel ==
    /\ ~cancelled
    /\ cancelled' = TRUE
    /\ last' = NoOp
    /\ UNCHANGED <<obsVars, now, storeVars, healthVars, maxConcurrency, semaphore, stopped,
                   closed, main, pc, found, tickPending>>

\* Start, after <-ctx.Done(): w.stopped = true, then wg.Wait().
MarkStopped ==
    /\ main = "waiting"
    /\ cancelled
    /\ stopped' = TRUE
    /\ main' = "joining"
    /\ last' = NoOp
    /\ UNCHANGED <<obsVars, now, storeVars, healthVars, maxConcurrency, semaphore, closed,
                   cancelled, pc, found, tickPending>>

CloseChanUnjoined ==
    /\ main = "joining"
    /\ closed' = TRUE
    /\ main' = "returned"
    /\ last' = NoOp
    /\ UNCHANGED <<obsVars, now, storeVars, healthVars, maxConcurrency, semaphore, stopped,
                   cancelled, pc, found, tickPending>>

\* Start, after wg.Wait(): close(w.updateChan) and return.
CloseChan ==
    /\ main = "joining"
    /\ \A r \in Rules : pc[r] = "done"
    /\ closed' = TRUE
    /\ main' = "returned"
    /\ last' = NoOp
    /\ UNCHANGED <<obsVars, now, storeVars, healthVars, maxConcurrency, semaphore, stopped,
                   cancelled, pc, found, tickPending>>

\* case w.semaphore <- struct{}{}: the send goes through while the channel
\* has room.  Without a semaphore (maxConcurrency = 0) nothing is acquired.
CanSendUnbounded(sem, cap) == TRUE

\* CanSend with one slot fewer than the channel's capacity.
CanSendShort(sem, cap) == sem + 1 < cap

CanSend(sem, cap) == sem < cap

ReleaseKept(sem) == sem

\* executeDetector returns: the deferred <-w.semaphore
Release(sem) == IF maxConcurrency > 0 THEN sem - 1 ELSE sem

Acquire(r) ==
    /\ pc[r] = "acquire"
    /\ IF maxConcurrency > 0
       THEN /\ CanSend(semaphore, maxConcurrency)
            /\ semaphore' = semaphore + 1
       ELSE semaphore' = semaphore
    /\ pc' = [pc EXCEPT ![r] = "health"]
    /\ last' = NoOp
    /\ UNCHANGED <<obsVars, now, storeVars, healthVars, maxConcurrency, stopped, closed,
                   cancelled, main, found, tickPending>>

\* case <-ctx.Done(): return, taken while waiting for a slot.
AcquireCancelled(r) ==
    /\ pc[r] = "acquire"
    /\ maxConcurrency > 0
    /\ cancelled
    /\ pc' = [pc EXCEPT ![r] = "wait"]
    /\ last' = NoOp
    /\ UNCHANGED <<obsVars, now, storeVars, healthVars, maxConcurrency, semaphore, stopped,
                   closed, cancelled, main, found, tickPending>>

\* checkPrometheusHealth: read lastPrometheusCheck, return when it is less
\* than 30 seconds old, and call w.provider.Health otherwise.
CheckHealth(r) ==
    /\ pc[r] = "health"
    /\ IF now - lastPrometheusCheck < HealthCheckSeconds
       THEN /\ pc' = [pc EXCEPT ![r] = "detect"]
            /\ lastProbe' = lastProbe
       ELSE /\ pc' = [pc EXCEPT ![r] = "probe"]
            /\ lastProbe' = now
    /\ last' = NoOp
    /\ UNCHANGED <<scored, extVars, now, storeVars, healthVars, maxConcurrency, semaphore, stopped,
                   closed, cancelled, main, found, tickPending>>

\* checkPrometheusHealth: w.provider.Health returns and its result is stored.
ProbeReturns(r) ==
    /\ pc[r] = "probe"
    /\ \E ok \in BOOLEAN : prometheusHealthy' = ok
    /\ lastPrometheusCheck' = now
    /\ pc' = [pc EXCEPT ![r] = "detect"]
    /\ last' = NoOp
    /\ UNCHANGED <<obsVars, now, storeVars, lastSuccessfulQuery, queryCount, errorCount,
                   maxConcurrency, semaphore, stopped, closed, cancelled, main,
                   found, tickPending>>

DetectFailsUncounted(r) ==
    /\ pc[r] = "detect"
    /\ queryCount' = queryCount + 1
    /\ prometheusHealthy' = FALSE
    /\ lastPrometheusCheck' = now
    /\ semaphore' = Release(semaphore)
    /\ pc' = [pc EXCEPT ![r] = "wait"]
    /\ last' = NoOp
    /\ UNCHANGED <<obsVars, now, storeVars, lastSuccessfulQuery, errorCount, maxConcurrency,
                   stopped, closed, cancelled, main, found, tickPending>>

\* d.Detect returns an error: the counters and the health flag are updated
\* under w.mu, and executeDetector returns without merging.
DetectFails(r) ==
    /\ pc[r] = "detect"
    /\ queryCount' = queryCount + 1
    /\ prometheusHealthy' = FALSE
    /\ lastPrometheusCheck' = now
    /\ errorCount' = errorCount + 1
    /\ semaphore' = Release(semaphore)
    /\ pc' = [pc EXCEPT ![r] = "wait"]
    /\ last' = NoOp
    /\ UNCHANGED <<obsVars, now, storeVars, lastSuccessfulQuery, maxConcurrency, stopped,
                   closed, cancelled, main, found, tickPending>>

DetectSucceedsUncounted(r) ==
    /\ pc[r] = "detect"
    /\ \E batch \in RuleBatches(r) :
        /\ Fits(batch)
        /\ found' = [found EXCEPT ![r] = batch]
    /\ prometheusHealthy' = TRUE
    /\ lastPrometheusCheck' = now
    /\ lastSuccessfulQuery' = now
    /\ pc' = [pc EXCEPT ![r] = "merge"]
    /\ last' = NoOp
    /\ UNCHANGED <<obsVars, now, storeVars, queryCount, errorCount, maxConcurrency, semaphore,
                   stopped, closed, cancelled, main, tickPending>>

\* d.Detect returns a batch: the counters and the health flag are updated
\* under w.mu, which is then released before updateProblems takes it again.
DetectSucceeds(r) ==
    /\ pc[r] = "detect"
    /\ \E batch \in RuleBatches(r) :
        /\ Fits(batch)
        /\ found' = [found EXCEPT ![r] = batch]
    /\ queryCount' = queryCount + 1
    /\ prometheusHealthy' = TRUE
    /\ lastPrometheusCheck' = now
    /\ lastSuccessfulQuery' = now
    /\ pc' = [pc EXCEPT ![r] = "merge"]
    /\ last' = NoOp
    /\ UNCHANGED <<obsVars, now, storeVars, errorCount, maxConcurrency, semaphore, stopped,
                   closed, cancelled, main, tickPending>>

MergeSkipsEmpty(r) ==
    /\ pc[r] = "merge"
    /\ IF found[r] = <<>>
       THEN /\ last' = NoOp
            /\ UNCHANGED storeVars
       ELSE UpdateProblems(found[r])
    /\ found' = [found EXCEPT ![r] = <<>>]
    /\ semaphore' = Release(semaphore)
    /\ pc' = [pc EXCEPT ![r] = "wait"]
    /\ UNCHANGED <<obsVars, now, healthVars, maxConcurrency, stopped, closed, cancelled, main,
                   tickPending>>

\* Merge without the deferred receive from the semaphore.
MergeHoldsSlot(r) ==
    /\ pc[r] = "merge"
    /\ UpdateProblems(found[r])
    /\ found' = [found EXCEPT ![r] = <<>>]
    /\ pc' = [pc EXCEPT ![r] = "wait"]
    /\ UNCHANGED <<obsVars, now, healthVars, maxConcurrency, semaphore, stopped, closed,
                   cancelled, main, tickPending>>

\* w.updateProblems(problems), then executeDetector returns.
Merge(r) ==
    /\ pc[r] = "merge"
    /\ UpdateProblems(found[r])
    /\ found' = [found EXCEPT ![r] = <<>>]
    /\ semaphore' = Release(semaphore)
    /\ pc' = [pc EXCEPT ![r] = "wait"]
    /\ UNCHANGED <<obsVars, now, healthVars, maxConcurrency, stopped, closed, cancelled, main,
                   tickPending>>

\* The executions begun so far: those whose Detect call has returned and
\* those on their way to it.
Begun == queryCount + Cardinality({ r \in Rules : pc[r] \in {"acquire", "health", "probe", "detect"} })

NextCycleOverlapping(r) ==
    /\ pc[r] \in {"wait", "detect"}
    /\ tickPending[r]
    /\ Begun < MaxRuns
    /\ tickPending' = [tickPending EXCEPT ![r] = FALSE]
    /\ pc' = [pc EXCEPT ![r] = "acquire"]
    /\ last' = NoOp
    /\ UNCHANGED <<obsVars, now, storeVars, healthVars, maxConcurrency, semaphore, stopped,
                   closed, cancelled, main, found>>

\* NextCycle with a ticker that queues its ticks: one is taken and another
\* is still there.
NextCycleQueued(r) ==
    /\ pc[r] = "wait"
    /\ tickPending[r]
    /\ Begun < MaxRuns
    /\ pc' = [pc EXCEPT ![r] = "acquire"]
    /\ last' = NoOp
    /\ UNCHANGED <<obsVars, now, storeVars, healthVars, maxConcurrency, semaphore,
                   stopped, closed, cancelled, main, found, tickPending>>

\* runDetector's select: case <-ticker.C
NextCycle(r) ==
    /\ pc[r] = "wait"
    /\ tickPending[r]
    /\ Begun < MaxRuns
    /\ tickPending' = [tickPending EXCEPT ![r] = FALSE]
    /\ pc' = [pc EXCEPT ![r] = "acquire"]
    /\ last' = NoOp
    /\ UNCHANGED <<obsVars, now, storeVars, healthVars, maxConcurrency, semaphore,
                   stopped, closed, cancelled, main, found>>

\* LoopExits waiting for the update channel to be closed instead of the
\* context to be cancelled.
LoopExitsOnClose(r) ==
    /\ pc[r] = "wait"
    /\ closed
    /\ pc' = [pc EXCEPT ![r] = "done"]
    /\ tickPending' = [tickPending EXCEPT ![r] = FALSE]
    /\ last' = NoOp
    /\ UNCHANGED <<obsVars, now, storeVars, healthVars, maxConcurrency, semaphore, stopped,
                   closed, cancelled, main, found>>

\* runDetector's select: case <-ctx.Done(); the deferred ticker.Stop() and
\* wg.Done() follow.
LoopExits(r) ==
    /\ pc[r] = "wait"
    /\ cancelled
    /\ pc' = [pc EXCEPT ![r] = "done"]
    /\ tickPending' = [tickPending EXCEPT ![r] = FALSE]
    /\ last' = NoOp
    /\ UNCHANGED <<obsVars, now, storeVars, healthVars, maxConcurrency, semaphore, stopped,
                   closed, cancelled, main, found>>

\* float64(a) / float64(b), kept as the fraction it stands for; 0.0 is 0/1.
Ratio(a, b) == [num |-> a, den |-> b]

\* GetPrometheusStats: the health fields read under w.mu.RLock, with
\* ErrorRate left at 0.0 unless QueryCount > 0.
GetPrometheusStats ==
    [Healthy |-> prometheusHealthy,
     LastCheck |-> lastPrometheusCheck,
     LastSuccessfulQuery |-> lastSuccessfulQuery,
     QueryCount |-> queryCount,
     ErrorCount |-> errorCount,
     ErrorRate |-> IF queryCount > 0 THEN Ratio(errorCount, queryCount) ELSE Ratio(0, 1)]

\* ------------------------------------------------------------------- specs
\* NewWatcher(provider, registry, maxConcurrency, detectorTimeout)
Init ==
    /\ now = 0
    /\ problems = <<>>
    /\ heap = <<>>
    /\ updateChan = 0
    /\ exported = <<>>
    /\ occ = [id \in IDs |-> 0]
    /\ sinceDrain = 0
    /\ last = NoOp
    /\ maxConcurrency \in 0..MaxLimit
    /\ semaphore = 0
    /\ prometheusHealthy = TRUE
    /\ lastPrometheusCheck = ZeroTime
    /\ lastSuccessfulQuery = ZeroTime
    /\ queryCount = 0
    /\ errorCount = 0
    /\ stopped = FALSE
    /\ closed = FALSE
    /\ cancelled = FALSE
    /\ main = "new"
    /\ pc = [r \in Rules |-> "idle"]
    /\ found = [r \in Rules |-> <<>>]
    /\ tickPending = [r \in Rules |-> FALSE]
    /\ lastProbe = ZeroTime
    /\ scored = <<>>
    /\ detectors = <<>>
    /\ regLog = <<>>
    /\ answer = NoAnswer
    /\ comparison = NoAnswer
    /\ flags = NoFlags
    /\ cli = NewRun
    /\ ui = NewModel
    /\ stopChan = "open"

Step(r) ==
    \/ Acquire(r)
    \/ AcquireCancelled(r)
    \/ CheckHealth(r)
    \/ ProbeReturns(r)
    \/ DetectFails(r)
    \/ DetectSucceeds(r)
    \/ Merge(r)
    \/ NextCycle(r)
    \/ LoopExits(r)

Next ==
    \/ Start
    \/ Cancel
    \/ MarkStopped
    \/ CloseChan
    \/ \E r \in Rules : Step(r)
    \/ Tick
    \/ Drain

\* The watcher as the program runs it.
Spec == Init /\ [][Next]_vars

\* The store alone, driven by direct calls of updateProblems on a watcher made
\* with maxConcurrency = 0 (newTestWatcher(0)).
InitStore == Init /\ maxConcurrency = 0

NextStore == MergeCall \/ TickStore \/ Drain

SpecStore == InitStore /\ [][NextStore]_vars

\* The store with a reader: the exports, and a caller that changes what it got
\* and drops it before the store is merged into again.
MergeUnread == exported = <<>> /\ MergeCall

TickUnread == exported = <<>> /\ Tick

NextExport ==
    \/ MergeUnread
    \/ TickUnread
    \/ GetProblems
    \/ GetProblemsByRecency
    \/ GetProblemsByCount
    \/ MutateField
    \/ MutateLabels
    \/ MutateMetrics
    \/ Discard

SpecExport == InitStore /\ [][NextExport]_vars

\* The store with a reader that only reads: the exports, each slice dropped
\* before the store is merged into again.
NextRead ==
    \/ MergeUnread
    \/ TickUnread
    \/ GetProblems
    \/ GetProblemsByRecency
    \/ GetProblemsByCount
    \/ Discard

SpecRead == InitStore /\ [][NextRead]_vars

\* The watcher left running: no limit, no consumer and no cancellation, over
\* enough ticks for an entry to go stale.
StepRunning(r) ==
    \/ Acquire(r)
    \/ CheckHealth(r)
    \/ ProbeReturns(r)
    \/ DetectFails(r)
    \/ DetectSucceeds(r)
    \/ Merge(r)
    \/ NextCycle(r)

NextRunning ==
    \/ Start
    \/ \E r \in Rules : StepRunning(r)
    \/ TickStore

SpecRunning == InitStore /\ [][NextRunning]_vars

\* Score alone: the fields of a Problem that Score reads, as the detectors
\* and the store fill them: one of the three severities, a BlastRadius that is
\* not negative (the detectors use constants from 1 to 20) and a Persistence
\* that is not negative (LastSeen is never before FirstSeen).
ScoreInputs ==
    [Severity : Severities,
     BlastRadius : 0..MaxBlast,
     Persistence : { k * TickerSeconds : k \in 0..MaxSpans }]

\* p.Score() is called and its result kept next to p.
ScoreCall(p) ==
    /\ Len(scored) < MaxScored
    /\ scored' = Append(scored, [p |-> p, score |-> Score(p)])
    /\ UNCHANGED <<lastProbe, extVars, now, storeVars, last, healthVars, loopVars>>

\* The results are dropped.
ScoreDiscard ==
    /\ scored # <<>>
    /\ scored' = <<>>
    /\ UNCHANGED <<lastProbe, extVars, now, storeVars, last, healthVars, loopVars>>

NextScore ==
    \/ \E p \in ScoreInputs : ScoreCall(p)
    \/ ScoreDiscard

SpecScore == InitStore /\ [][NextScore]_vars

\* ---------------------------------------------------------------- registry
\* The names detectors report, and the detectors: two detectors can report
\* the same name.
Names == {"det-1", "det-2"}

Detectors == [name : Names, obj : 1..MaxObjs]

\* The registry's calls; each holds r.mu from its first statement to its
\* return, so a call is one step.
RegisterIfAbsent(d) ==
    /\ Len(regLog) < MaxCalls
    /\ detectors' = IF d.name \in DOMAIN detectors
                    THEN detectors
                    ELSE [n \in DOMAIN detectors \cup {d.name} |->
                             IF n = d.name THEN d ELSE detectors[n]]
    /\ regLog' = Append(regLog, [op |-> "register", name |-> d.name, d |-> d])
    /\ answer' = NoAnswer
    /\ UNCHANGED <<comparison, flags, cli, ui, stopChan, lastProbe, scored, now, storeVars, last,
                   healthVars, loopVars>>

\* r.detectors[d.Name()] = d
Register(d) ==
    /\ Len(regLog) < MaxCalls
    /\ detectors' = [n \in DOMAIN detectors \cup {d.name} |->
                        IF n = d.name THEN d ELSE detectors[n]]
    /\ regLog' = Append(regLog, [op |-> "register", name |-> d.name, d |-> d])
    /\ answer' = NoAnswer
    /\ UNCHANGED <<comparison, flags, cli, ui, stopChan, lastProbe, scored, now, storeVars, last,
                   healthVars, loopVars>>

\* delete(r.detectors, name)
Unregister(name) ==
    /\ Len(regLog) < MaxCalls
    /\ detectors' = [n \in DOMAIN detectors \ {name} |-> detectors[n]]
    /\ regLog' = Append(regLog, [op |-> "unregister", name |-> name])
    /\ answer' = NoAnswer
    /\ UNCHANGED <<comparison, flags, cli, ui, stopChan, lastProbe, scored, now, storeVars, last,
                   healthVars, loopVars>>

\* d, ok := r.detectors[name]
Get(name) ==
    /\ answer' = IF name \in DOMAIN detectors
                 THEN [op |-> "get", name |-> name, ok |-> TRUE, d |-> detectors[name]]
                 ELSE [op |-> "get", name |-> name, ok |-> FALSE]
    /\ UNCHANGED <<detectors, regLog, comparison, flags, cli, ui, stopChan, lastProbe, scored, now,
                   storeVars, last, healthVars, loopVars>>

\* for _, d := range r.detectors { list = append(list, d) }: the detectors in
\* the order the map iteration yields them.
All ==
    /\ \E l \in [1..Cardinality(DOMAIN detectors) -> DOMAIN detectors] :
          /\ \A i, j \in DOMAIN l : i # j => l[i] # l[j]
          /\ answer' = [op |-> "all", list |-> [i \in DOMAIN l |-> detectors[l[i]]]]
    /\ UNCHANGED <<detectors, regLog, comparison, flags, cli, ui, stopChan, lastProbe, scored, now,
                   storeVars, last, healthVars, loopVars>>

\* len(r.detectors)
Count ==
    /\ answer' = [op |-> "count", n |-> Cardinality(DOMAIN detectors)]
    /\ UNCHANGED <<detectors, regLog, comparison, flags, cli, ui, stopChan, lastProbe, scored, now,
                   storeVars, last, healthVars, loopVars>>

NextRegistry ==
    \/ \E d \in Detectors : Register(d)
    \/ \E name \in Names : Unregister(name)
    \/ \E name \in Names : Get(name)
    \/ All
    \/ Count

\* NewRegistry() and the calls made on it, in any order.
SpecRegistry == InitStore /\ [][NextRegistry]_vars

\* ------------------------------------------------------------------ claims
\* An entry as a value: its fields, with the two maps in place of their
\* addresses.
Deref(p, hp) == [p EXCEPT !.Labels = hp[p.Labels], !.Metrics = hp[p.Metrics]]

StoreValue == [id \in DOMAIN problems |-> Deref(problems[id], heap)]

\* The executions that hold a limiter slot: past the acquisition and not yet
\* returned from executeDetector.
InFlight == { r \in Rules : pc[r] \in {"health", "probe", "detect", "merge"} }

\* C1: with a concurrency limit N > 0, the executions holding a limiter slot
\* never exceed N, and the limiter counts exactly those executions.
C1_ConcurrencyBound ==
    maxConcurrency > 0 =>
        /\ Cardinality(InFlight) <= maxConcurrency
        /\ semaphore = Cardinality(InFlight)

\* C1 witness: the limit is 1, one rule is inside its Detect call and the
\* other waits for the slot.
C1_Witness ==
    /\ maxConcurrency = 1
    /\ \E r, q \in Rules : pc[r] = "detect" /\ pc[q] = "acquire"

\* C2: the Count of a stored entry is the number of occurrences of its ID
\* merged since the entry was inserted.
C2_CountIsOccurrences ==
    \A id \in DOMAIN problems : problems[id].Count = occ[id]

\* C2 witness: two merges, at different times, each held the ID once.
C2_Witness ==
    /\ "x" \in DOMAIN problems
    /\ problems["x"].Count = 2
    /\ occ["x"] = 2
    /\ problems["x"].LastSeen = problems["x"].FirstSeen + TickerSeconds

\* C3: while an entry stays in the store its FirstSeen never changes and its
\* LastSeen never decreases.
C3_FirstSeenFixed ==
    [][\A id \in DOMAIN problems \cap DOMAIN problems' :
          /\ problems'[id].FirstSeen = problems[id].FirstSeen
          /\ problems'[id].LastSeen >= problems[id].LastSeen]_vars

\* C3 witness: an entry was found again later than it was first seen.
C3_Witness ==
    \E id \in DOMAIN problems :
        /\ problems[id].LastSeen > problems[id].FirstSeen
        /\ problems[id].FirstSeen > 0

\* C4: every stored entry has Persistence = LastSeen - FirstSeen.
C4_PersistenceIsSpan ==
    \A id \in DOMAIN problems :
        problems[id].Persistence = problems[id].LastSeen - problems[id].FirstSeen

\* C4 witness: a merge has just recomputed a Persistence of two ticks.
C4_Witness ==
    /\ last.op = "merge"
    /\ \E id \in DOMAIN problems :
        /\ last.n[id] > 0
        /\ problems[id].Persistence = 2 * TickerSeconds

\* C5 as claimed: a merge whose batch holds an ID absent from the store
\* leaves an entry with FirstSeen = LastSeen = the merge time, Count = 1 and
\* Persistence = 0.
C5_InsertedCountOne ==
    [][last'.op = "merge" =>
          \A id \in IDs : (id \notin DOMAIN problems /\ last'.n[id] > 0) =>
              /\ id \in DOMAIN problems'
              /\ problems'[id].FirstSeen = now
              /\ problems'[id].LastSeen = now
              /\ problems'[id].Count = 1
              /\ problems'[id].Persistence = 0]_vars

\* C5 amended: a merge whose batch holds an ID absent from the store leaves
\* an entry with FirstSeen = LastSeen = the merge time, Persistence = 0 and
\* Count = the number of occurrences of the ID in the batch.
C5_InsertedCountOccurrences ==
    [][last'.op = "merge" =>
          \A id \in IDs : (id \notin DOMAIN problems /\ last'.n[id] > 0) =>
              /\ id \in DOMAIN problems'
              /\ problems'[id].FirstSeen = now
              /\ problems'[id].LastSeen = now
              /\ problems'[id].Count = last'.n[id]
              /\ problems'[id].Persistence = 0]_vars

\* C5 witness: a merge, later than the start, has just inserted an entry.
C5_Witness ==
    /\ last.op = "merge"
    /\ now > 0
    /\ \E id \in DOMAIN problems :
        /\ last.n[id] = 1
        /\ problems[id].Count = 1
        /\ problems[id].FirstSeen = now

C7_EmptyMergeFrame ==
    [][(last'.op = "merge" /\ \A id \in IDs : last'.n[id] = 0) =>
          \A id \in DOMAIN problems :
              IF problems[id].LastSeen >= now - StaleSeconds
              THEN /\ id \in DOMAIN problems'
                   /\ Deref(problems'[id], heap') = Deref(problems[id], heap)
              ELSE id \notin DOMAIN problems']_vars

\* C7 witness: an empty merge has just evicted one entry and kept another.
C7_Witness ==
    /\ last.op = "merge"
    /\ \A id \in IDs : last.n[id] = 0
    /\ last.evicted # {}
    /\ DOMAIN problems # {}

\* C8: a merge that inserted, updated or evicted an entry leaves a signal
\* pending; any other merge leaves the notifier as it was.
C8_NotifyIffChanged ==
    [][last'.op = "merge" =>
          IF (\E id \in IDs : last'.n[id] > 0) \/ last'.evicted # {}
          THEN updateChan' = 1
          ELSE updateChan' = updateChan]_vars

\* C8 witness: the only change since the last drain was an eviction, and a
\* signal is pending.
C8_Witness ==
    /\ last.op = "merge"
    /\ last.evicted # {}
    /\ sinceDrain = 1
    /\ updateChan = 1

\* C9: the notifier never holds more than one signal, and however many
\* change-producing merges came since the last drain, exactly one is pending.
C9_OnePendingSignal ==
    /\ updateChan <= 1
    /\ sinceDrain >= 1 => updateChan = 1

\* C9 witness: three change-producing merges since the last drain.
C9_Witness ==
    /\ sinceDrain = 3
    /\ updateChan = 1

\* C10 as claimed: whatever the caller of an export changes in the slice it
\* got, a field or an entry of a Labels or Metrics map, the value of every
\* stored entry stays as it was.
C10_CopyIsolation ==
    [][last'.op = "mutate" => StoreValue' = StoreValue]_vars

\* C11: when a rule's Detect call returns an error, the health flag becomes
\* false, the error counter grows by exactly one, and the store and the
\* notifier stay as they were: the execution returns without a merge.
C11_ErrorLeavesStore ==
    [][\A r \in Rules : (pc[r] = "detect" /\ pc'[r] = "wait") =>
          /\ prometheusHealthy' = FALSE
          /\ errorCount' = errorCount + 1
          /\ problems' = problems
          /\ heap' = heap
          /\ updateChan' = updateChan
          /\ last'.op # "merge"]_vars

\* C11 witness: the second execution of a run has failed, one tick after the
\* first one filled the store; its signal had been drained and none is
\* pending.
C11_Witness ==
    /\ errorCount = 1
    /\ queryCount = 2
    /\ ~prometheusHealthy
    /\ lastPrometheusCheck = now
    /\ now = TickerSeconds
    /\ DOMAIN problems # {}
    /\ updateChan = 0
    /\ \E r \in Rules : pc[r] = "wait"

\* C12: when a rule's Detect call returns a batch, the health flag becomes
\* true and both timestamps become the current time; the execution then
\* returns only through a merge of that batch, empty or not, after which
\* every ID of the batch is stored as seen now and no stale entry is left.
C12_SuccessMerges ==
    [][\A r \in Rules :
          /\ (pc[r] = "detect" /\ pc'[r] = "merge") =>
                /\ prometheusHealthy' = TRUE
                /\ lastPrometheusCheck' = now
                /\ lastSuccessfulQuery' = now
          /\ (pc[r] = "merge" /\ pc'[r] # "merge") =>
                /\ last'.op = "merge"
                /\ last'.n = [id \in IDs |-> Occurrences(found[r], id)]
                /\ \A id \in IDs : last'.n[id] > 0 =>
                      /\ id \in DOMAIN problems'
                      /\ problems'[id].LastSeen = now
                /\ \A id \in DOMAIN problems' :
                      problems'[id].LastSeen >= now - StaleSeconds]_vars

\* C12 witness: a rule's successful execution returned an empty batch, and
\* its merge has just evicted the entry an earlier execution had stored.
C12_Witness ==
    /\ last.op = "merge"
    /\ \A id \in IDs : last.n[id] = 0
    /\ last.evicted # {}
    /\ prometheusHealthy
    /\ lastSuccessfulQuery = now
    /\ lastPrometheusCheck = now
    /\ queryCount >= 2

\* C13: the query counter grows by exactly one on every step on which a
\* Detect call returns and on no other step, the error counter by exactly
\* one on those that return an error and on no other step; so
\* 0 <= errorCount <= queryCount always, and the reported ErrorRate is
\* errorCount / queryCount, or 0 while queryCount = 0.
C13_Counters ==
    /\ [](/\ 0 <= errorCount
          /\ errorCount <= queryCount
          /\ GetPrometheusStats.ErrorRate.den > 0
          /\ IF queryCount = 0
             THEN GetPrometheusStats.ErrorRate.num = 0
             ELSE GetPrometheusStats.ErrorRate.num * queryCount =
                      errorCount * GetPrometheusStats.ErrorRate.den)
    /\ [][/\ queryCount' - queryCount =
                Cardinality({ r \in Rules : pc[r] = "detect" /\ pc'[r] # "detect" })
          /\ errorCount' - errorCount =
                Cardinality({ r \in Rules : pc[r] = "detect" /\ pc'[r] = "wait" })]_vars

\* C13 witness: three Detect calls have returned, one of them with an error,
\* and the reported rate is one third.
C13_Witness ==
    /\ queryCount = 3
    /\ errorCount = 1
    /\ GetPrometheusStats.ErrorRate = Ratio(1, 3)

\* C14 as claimed: w.provider.Health is called at most once per 30 seconds:
\* every call comes at least 30 seconds after the call before it.
C14_ProbesSpaced ==
    [][\A r \in Rules : (pc[r] = "health" /\ pc'[r] = "probe") =>
          now - lastProbe >= HealthCheckSeconds]_vars

\* C15: the notifier is closed only once every rule loop has returned: on
\* the closing step and ever after no execution is in flight, and once it is
\* closed no merge runs and nothing is sent on it.
C15_ClosedAfterLoops ==
    /\ [](closed => (InFlight = {} /\ \A r \in Rules : pc[r] = "done"))
    /\ [][(~closed /\ closed') => \A r \in Rules : pc[r] = "done"]_vars
    /\ [][closed => (last'.op # "merge" /\ updateChan' <= updateChan)]_vars

\* C15 witness: Start has closed the notifier after a run in which two
\* executions returned and the store was filled, a signal still pending.
C15_Witness ==
    /\ closed
    /\ main = "returned"
    /\ queryCount >= 2
    /\ DOMAIN problems # {}
    /\ updateChan = 1

\* C16 as claimed: once the context is cancelled no rule loop begins an
\* execution, neither its first one nor one for a tick.
C16_NoStartAfterCancel ==
    [][cancelled => \A r \in Rules : pc'[r] = "acquire" => pc[r] = "acquire"]_vars

\* C17: a rule begins an execution only when it has none in flight: its
\* first one when its loop starts, every later one from the loop's select,
\* where the execution before it has returned.
C17_Sequential ==
    [][\A r \in Rules : (pc'[r] = "acquire" /\ pc[r] # "acquire") =>
          /\ r \notin InFlight
          /\ pc[r] \in {"idle", "wait"}
          /\ found[r] = <<>>]_vars

\* C17 witness: rule r1 is inside its Detect call again, after the result of
\* an earlier execution of it was merged (the stored entry is the one r1
\* reports).
C17_Witness ==
    /\ pc["r1"] = "detect"
    /\ "x" \in DOMAIN problems
    /\ problems["x"].Severity = Finds("r1").Severity
    /\ problems["x"].FirstSeen < now

\* C18: an execution that ends in an error gives back the limiter slot it
\* held, and one that gives up waiting for a slot held none; so a rule that
\* waits for a slot finds one free whenever fewer executions than the limit
\* are in flight, whatever became of the other rules' executions.
C18_FailureFreesSlot ==
    /\ [][\A r \in Rules :
             /\ (pc[r] = "detect" /\ pc'[r] = "wait" /\ maxConcurrency > 0) =>
                   semaphore' = semaphore - 1
             /\ (pc[r] = "acquire" /\ pc'[r] = "wait") =>
                   semaphore' = semaphore]_vars
    /\ [](\A q \in Rules :
             (pc[q] = "acquire" /\ maxConcurrency > 0
                /\ Cardinality(InFlight) < maxConcurrency) =>
                 CanSend(semaphore, maxConcurrency))

\* C18 witness: with a limit of 1, in the first round, one rule's execution
\* failed and the other rule then got the slot, executed and merged.
C18_Witness ==
    /\ maxConcurrency = 1
    /\ ~cancelled
    /\ now = 0
    /\ errorCount = 1
    /\ queryCount = 2
    /\ last.op = "merge"
    /\ semaphore = 0
    /\ \A r \in Rules : pc[r] = "wait"

\* C19: of two scored Problems with the same BlastRadius and the same
\* Persistence, a FATAL one scores strictly higher than a CRITICAL one and a
\* CRITICAL one strictly higher than a WARNING one.
C19_SeverityOrdersScore ==
    \A i, j \in DOMAIN scored :
        (/\ scored[i].p.BlastRadius = scored[j].p.BlastRadius
         /\ scored[i].p.Persistence = scored[j].p.Persistence
         /\ \/ scored[i].p.Severity = "FATAL" /\ scored[j].p.Severity = "CRITICAL"
            \/ scored[i].p.Severity = "CRITICAL" /\ scored[j].p.Severity = "WARNING")
        => scored[i].score > scored[j].score

\* C19 witness: a CRITICAL and a WARNING Problem, both with the largest
\* BlastRadius and Persistence, have been scored.
C19_Witness ==
    /\ Len(scored) = 2
    /\ scored[1].p.Severity = "CRITICAL"
    /\ scored[2].p.Severity = "WARNING"
    /\ scored[1].p.BlastRadius = MaxBlast
    /\ scored[2].p.BlastRadius = MaxBlast
    /\ scored[1].p.Persistence = MaxSpans * TickerSeconds
    /\ scored[2].p.Persistence = MaxSpans * TickerSeconds
    /\ scored[1].score > scored[2].score

\* C20: of two scored Problems that differ only in BlastRadius, or only in
\* Persistence, the one with the larger value scores strictly higher.
C20_ScoreIncreasing ==
    \A i, j \in DOMAIN scored :
        /\ (/\ scored[i].p.Severity = scored[j].p.Severity
            /\ scored[i].p.Persistence = scored[j].p.Persistence
            /\ scored[i].p.BlastRadius > scored[j].p.BlastRadius)
           => scored[i].score > scored[j].score
        /\ (/\ scored[i].p.Severity = scored[j].p.Severity
            /\ scored[i].p.BlastRadius = scored[j].p.BlastRadius
            /\ scored[i].p.Persistence > scored[j].p.Persistence)
           => scored[i].score > scored[j].score

\* C20 witness: two WARNING Problems one ticker period apart in Persistence,
\* with the same BlastRadius, have been scored.
C20_Witness ==
    /\ Len(scored) = 2
    /\ scored[1].p.Severity = "WARNING"
    /\ scored[2].p.Severity = "WARNING"
    /\ scored[1].p.BlastRadius = scored[2].p.BlastRadius
    /\ scored[2].p.Persistence = scored[1].p.Persistence + TickerSeconds
    /\ scored[2].score > scored[1].score

\* The key each export ranks by.
RankKey(order, p) ==
    CASE order = "score" -> Score(p)
      [] order = "recency" -> p.LastSeen
      [] order = "count" -> p.Count

\* The slice the caller holds has one element per stored entry, equal to the
\* entry, and no element has a larger key than one before it.
Ranked(order) ==
    /\ Len(exported) = Cardinality(DOMAIN problems)
    /\ \A id \in DOMAIN problems :
          \E i \in DOMAIN exported :
              /\ exported[i] = problems[id]
              /\ \A j \in DOMAIN exported : exported[j].ID = id => j = i
    /\ \A i, j \in DOMAIN exported :
          i < j => RankKey(order, exported[i]) >= RankKey(order, exported[j])

\* C21: each export returns exactly one element per stored entry, in
\* non-increasing order of its key: GetProblems by Score,
\* GetProblemsByRecency by LastSeen, GetProblemsByCount by Count.
C21_RankedExports ==
    last.op = "export" => Ranked(last.by)

\* C21 witness: an export has returned two entries of which the second has
\* the higher Score and the first the higher Count, so the slice is the one
\* GetProblemsByCount returns and not the one GetProblems returns.
C21_Witness ==
    /\ last.op = "export"
    /\ last.by = "count"
    /\ Len(exported) = 2
    /\ Score(exported[1]) < Score(exported[2])
    /\ exported[1].Count > exported[2].Count
    /\ Ranked("count")

\* C22: GetSummary returns, for each of the three severities, the number of
\* stored entries with that severity, 0 included, and nothing else; the
\* three tallies add up to the size of the store.
C22_SummaryTallies ==
    /\ DOMAIN GetSummary = Severities
    /\ \A s \in Severities :
          GetSummary[s] = Cardinality({ id \in DOMAIN problems : problems[id].Severity = s })
    /\ GetSummary["FATAL"] + GetSummary["CRITICAL"] + GetSummary["WARNING"]
         = Cardinality(DOMAIN problems)

\* C22 witness: the store holds a FATAL and a WARNING entry and no CRITICAL
\* one.
C22_Witness ==
    /\ Cardinality(DOMAIN problems) = 2
    /\ GetSummary = [s \in Severities |-> IF s = "CRITICAL" THEN 0 ELSE 1]

\* The names registered and not unregistered since, and the detector each
\* was last registered with, read off the calls made.
Live(log) ==
    { n \in Names :
        \E i \in DOMAIN log :
            /\ log[i].op = "register"
            /\ log[i].name = n
            /\ \A j \in DOMAIN log :
                  j > i => ~(log[j].op = "unregister" /\ log[j].name = n) }

Latest(log, n) ==
    log[CHOOSE i \in DOMAIN log :
            /\ log[i].op = "register"
            /\ log[i].name = n
            /\ \A j \in DOMAIN log :
                  j > i => ~(log[j].op = "register" /\ log[j].name = n)].d

\* C23: the registry is the map from the names registered and not
\* unregistered since to the detector last registered under each; Get, All
\* and Count return what that map holds, and registering a name that is
\* present changes its detector and not the count.
C23_RegistryIsMap ==
    /\ [](/\ DOMAIN detectors = Live(regLog)
          /\ \A n \in Live(regLog) : detectors[n] = Latest(regLog, n)
          /\ answer.op = "count" => answer.n = Cardinality(Live(regLog))
          /\ answer.op = "get" =>
                IF answer.name \in Live(regLog)
                THEN answer.ok /\ answer.d = Latest(regLog, answer.name)
                ELSE ~answer.ok
          /\ answer.op = "all" =>
                /\ Len(answer.list) = Cardinality(Live(regLog))
                /\ { answer.list[i] : i \in DOMAIN answer.list }
                     = { Latest(regLog, n) : n \in Live(regLog) })
    /\ [][(Len(regLog') > Len(regLog)
             /\ regLog'[Len(regLog')].op = "register"
             /\ regLog'[Len(regLog')].name \in DOMAIN detectors) =>
              /\ Cardinality(DOMAIN detectors') = Cardinality(DOMAIN detectors)
              /\ detectors'[regLog'[Len(regLog')].name] = regLog'[Len(regLog')].d]_vars

\* C23 witness: a name was registered, registered again with another
\* detector and a second name unregistered; Get returns the second detector.
C23_Witness ==
    /\ Len(regLog) = 3
    /\ regLog[1].op = "register"
    /\ regLog[2].op = "register"
    /\ regLog[2].name = regLog[1].name
    /\ regLog[2].d # regLog[1].d
    /\ regLog[3].op = "unregister"
    /\ regLog[3].name # regLog[1].name
    /\ answer.op = "get"
    /\ answer.ok
    /\ answer.d = regLog[2].d

\* ---------------------------------------------------------------- baseline
\* The problems a current list or a baseline file can hold: an ID and, to
\* tell the two sides' records of one ID apart, a severity.
BaselineIDs == {"x", "y", "z"}

Listed == [ID : BaselineIDs, Severity : {"WARNING", "FATAL"}]

ProblemLists == UNION { [1..n -> Listed] : n \in 0..MaxListed }

\* m := make(map[string]*models.Problem); for _, p := range l { m[p.ID] = p }:
\* a later element of the list replaces an earlier one with the same ID.
IndexByID(l) ==
    [id \in { l[i].ID : i \in DOMAIN l } |->
        l[CHOOSE i \in DOMAIN l :
            l[i].ID = id /\ \A j \in DOMAIN l : j > i => l[j].ID # id]]

\* The orders in which a range statement can visit the keys of a map.
RangeOrders(m) ==
    { o \in [1..Cardinality(DOMAIN m) -> DOMAIN m] :
        \A i, j \in DOMAIN o : i # j => o[i] # o[j] }

\* Compare without the test of the resolved loop: every baseline entry is
\* appended to Resolved.
CompareAllResolved(current, baseline) ==
    LET baselineMap == IndexByID(baseline.Problems)
        currentMap == IndexByID(current)
    IN  { LET unchanged == SelectSeq(co, LAMBDA id : id \in DOMAIN baselineMap)
              new == SelectSeq(co, LAMBDA id : id \notin DOMAIN baselineMap)
          IN  [New |-> [i \in DOMAIN new |-> currentMap[new[i]]],
               Resolved |-> [i \in DOMAIN bo |-> baselineMap[bo[i]]],
               Unchanged |-> [i \in DOMAIN unchanged |-> currentMap[unchanged[i]]],
               Summary |-> [NewCount |-> Len(new),
                            ResolvedCount |-> Len(bo),
                            UnchangedCount |-> Len(unchanged)]]
          : co \in RangeOrders(currentMap), bo \in RangeOrders(baselineMap) }

\* Compare(current, baseline): the results it can return, one for each pair
\* of orders in which the two maps are ranged over.
Compare(current, baseline) ==
    LET baselineMap == IndexByID(baseline.Problems)
        currentMap == IndexByID(current)
    IN  { LET unchanged == SelectSeq(co, LAMBDA id : id \in DOMAIN baselineMap)
              new == SelectSeq(co, LAMBDA id : id \notin DOMAIN baselineMap)
              resolved == SelectSeq(bo, LAMBDA id : id \notin DOMAIN currentMap)
          IN  [New |-> [i \in DOMAIN new |-> currentMap[new[i]]],
               Resolved |-> [i \in DOMAIN resolved |-> baselineMap[resolved[i]]],
               Unchanged |-> [i \in DOMAIN unchanged |-> currentMap[unchanged[i]]],
               Summary |-> [NewCount |-> Len(new),
                            ResolvedCount |-> Len(resolved),
                            UnchangedCount |-> Len(unchanged)]]
          : co \in RangeOrders(currentMap), bo \in RangeOrders(baselineMap) }

\* A call of Compare on a current list and a baseline, made once the result
\* of the call before has been dropped.
CompareCall(current, baseline) ==
    /\ comparison = NoAnswer
    /\ \E comp \in Compare(current, baseline) :
          comparison' = [op |-> "compare", current |-> current,
                         baseline |-> baseline.Problems, comp |-> comp]
    /\ UNCHANGED <<regVars, flags, cli, ui, stopChan, lastProbe, scored, now, storeVars, last,
                   healthVars, loopVars>>

\* The caller drops the result.
CompareDiscard ==
    /\ comparison # NoAnswer
    /\ comparison' = NoAnswer
    /\ UNCHANGED <<regVars, flags, cli, ui, stopChan, lastProbe, scored, now, storeVars, last,
                   healthVars, loopVars>>

NextCompare ==
    \/ /\ comparison = NoAnswer
       /\ \E current \in ProblemLists, b \in ProblemLists :
             CompareCall(current, [Problems |-> b])
    \/ CompareDiscard

SpecCompare == Init /\ [][NextCompare]_vars

\* The IDs of the problems of a list.
IDsOf(l) == { l[i].ID : i \in DOMAIN l }

\* C27: Compare puts every distinct ID of the current list or the baseline
\* into exactly one of New (current only), Resolved (baseline only) and
\* Unchanged (both), once; the three are pairwise disjoint, cover all the
\* IDs, and the three counts of the summary are their sizes.
C27_ComparePartitions ==
    comparison.op = "compare" =>
        LET c == comparison.comp
            cur == IDsOf(comparison.current)
            base == IDsOf(comparison.baseline)
        IN  /\ IDsOf(c.New) = cur \ base
            /\ IDsOf(c.Resolved) = base \ cur
            /\ IDsOf(c.Unchanged) = cur \cap base
            /\ IDsOf(c.New) \cap IDsOf(c.Resolved) = {}
            /\ IDsOf(c.New) \cap IDsOf(c.Unchanged) = {}
            /\ IDsOf(c.Resolved) \cap IDsOf(c.Unchanged) = {}
            /\ IDsOf(c.New) \cup IDsOf(c.Resolved) \cup IDsOf(c.Unchanged) = cur \cup base
            /\ Len(c.New) = Cardinality(IDsOf(c.New))
            /\ Len(c.Resolved) = Cardinality(IDsOf(c.Resolved))
            /\ Len(c.Unchanged) = Cardinality(IDsOf(c.Unchanged))
            /\ c.Summary.NewCount = Cardinality(cur \ base)
            /\ c.Summary.ResolvedCount = Cardinality(base \ cur)
            /\ c.Summary.UnchangedCount = Cardinality(cur \cap base)

\* C27 witness: a comparison with one new, one resolved and one unchanged ID.
C27_Witness ==
    /\ comparison.op = "compare"
    /\ comparison.comp.Summary = [NewCount |-> 1, ResolvedCount |-> 1, UnchangedCount |-> 1]

\* ---------------------------------------------------------------- JSON mode
\* A flag value is the sequence of its characters.
LowerCase == <<"a", "c", "f", "g", "h", "i", "l", "n", "r", "t", "w">>

UpperCase == <<"A", "C", "F", "G", "H", "I", "L", "N", "R", "T", "W">>

\* strings.ToUpper
ToUpper(s) ==
    [i \in DOMAIN s |->
        IF \E k \in DOMAIN LowerCase : LowerCase[k] = s[i]
        THEN UpperCase[CHOOSE k \in DOMAIN LowerCase : LowerCase[k] = s[i]]
        ELSE s[i]]

\* ParseSeverity(s): the severity and nil, or "" and an error.
ParseSeverity(s) ==
    LET u == ToUpper(s)
    IN  IF u = <<"W", "A", "R", "N", "I", "N", "G">> THEN [sev |-> "WARNING", err |-> FALSE]
        ELSE IF u = <<"C", "R", "I", "T", "I", "C", "A", "L">> THEN [sev |-> "CRITICAL", err |-> FALSE]
        ELSE IF u = <<"F", "A", "T", "A", "L">> THEN [sev |-> "FATAL", err |-> FALSE]
        ELSE [sev |-> "", err |-> TRUE]

\* order[s] of AtLeast: a severity that is not a key of the map reads as 0.
Order(s) ==
    IF s = "WARNING" THEN 1
    ELSE IF s = "CRITICAL" THEN 2
    ELSE IF s = "FATAL" THEN 3
    ELSE 0

\* AtLeast with every severity passing the threshold.
AtLeastAlways(s, threshold) == TRUE

\* s.AtLeast(threshold)
AtLeast(s, threshold) == Order(s) >= Order(threshold)

\* The values of --fail-on tried: unset, FATAL, critical, Warning and high.
FailOnValues ==
    { <<>>,
      <<"F", "A", "T", "A", "L">>,
      <<"c", "r", "i", "t", "i", "c", "a", "l">>,
      <<"W", "a", "r", "n", "i", "n", "g">>,
      <<"h", "i", "g", "h">> }

\* The flag combinations of a run with --output json.
FlagSets ==
    [failOn : FailOnValues, save : BOOLEAN, compare : BOOLEAN, drift : BOOLEAN,
     export : BOOLEAN]

\* The runs with a value of --fail-on, no baseline and no export file.
PlainFlagSets ==
    { f \in FlagSets :
        f.failOn # <<>> /\ ~f.save /\ ~f.compare /\ ~f.drift /\ ~f.export }

\* The baseline files that LoadBaseline can return.
BaselineFiles ==
    { <<>>,
      <<[ID |-> "x", Severity |-> "WARNING"]>>,
      <<[ID |-> "z", Severity |-> "FATAL"]>> }

\* The file or stream operation of runJSONMode that fails, if it is reached.
IOFailures == {"none", "save", "load", "encode", "export"}

\* The process is running: main has not returned and util.Exit was not called.
Alive == cli.pc # "exited"

\* cobra parses the command line into the flag variables.
ParseFlags(f) ==
    /\ cli.pc = "args"
    /\ flags' = f
    /\ cli' = [cli EXCEPT !.pc = "setup"]
    /\ UNCHANGED <<regVars, comparison, ui, stopChan, lastProbe, scored, now, storeVars, last,
                   healthVars, loopVars>>

\* runMonitor up to the call of runJSONMode: the watcher is created, the
\* goroutine that calls watcher.Start is spawned, and runJSONMode enters its
\* select, where time.After(30 * time.Second) starts counting.
Launch ==
    /\ cli.pc = "setup"
    /\ cli' = [cli EXCEPT !.pc = "select", !.t0 = now]
    /\ UNCHANGED <<regVars, comparison, flags, ui, stopChan, lastProbe, scored, now, storeVars,
                   last, healthVars, loopVars>>

\* case <-watcher.UpdateChan()
JSONSignalled ==
    /\ cli.pc = "select"
    /\ updateChan > 0
    /\ updateChan' = updateChan - 1
    /\ sinceDrain' = 0
    /\ last' = NoOp
    /\ cli' = [cli EXCEPT !.pc = "read"]
    /\ UNCHANGED <<regVars, comparison, flags, ui, stopChan, lastProbe, scored, now, problems,
                   heap, exported, occ, healthVars, loopVars>>

\* case <-time.After(30 * time.Second)
JSONTimedOut ==
    /\ cli.pc = "select"
    /\ now - cli.t0 >= JSONWaitSeconds
    /\ cli' = [cli EXCEPT !.pc = "read"]
    /\ UNCHANGED <<regVars, comparison, flags, ui, stopChan, lastProbe, scored, now, storeVars,
                   last, healthVars, loopVars>>

\* problems := watcher.GetProblems(); problems = applyFilters(problems), with
\* no namespace filter set.  Of each problem the ID and the Severity are kept.
JSONRead ==
    /\ cli.pc = "read"
    /\ \E list \in SortedCopies("score") :
          cli' = [cli EXCEPT !.pc = "run",
                             !.list = [i \in DOMAIN list |->
                                          [ID |-> list[i].ID,
                                           Severity |-> list[i].Severity]]]
    /\ UNCHANGED <<regVars, comparison, flags, ui, stopChan, lastProbe, scored, now, storeVars,
                   last, healthVars, loopVars>>

\* The process ends with an exit code: 0 when runJSONMode returns nil, 1 on
\* util.Exit(1), ExitRuntimeError when it returns an error (main).
Exits(code, err, printed) ==
    cli' = [cli EXCEPT !.pc = "exited", !.exit = code, !.err = err,
                       !.printed = printed]

\* The rest of runJSONMode, from the baseline options to the return.  The
\* operation named by io fails if the run reaches it; b is the baseline that
\* LoadBaseline returns.
JSONFinish(io, b) ==
    /\ cli.pc = "run"
    /\ IF flags.save /\ io = "save"
       THEN Exits(ExitRuntimeError, "save", "none") /\ UNCHANGED comparison
       ELSE IF flags.compare
       THEN IF io = "load"
            THEN Exits(ExitRuntimeError, "load", "none") /\ UNCHANGED comparison
            ELSE \E comp \in Compare(cli.list, [Problems |-> b]) :
                    /\ comparison' = [op |-> "compare", current |-> cli.list,
                                      baseline |-> b, comp |-> comp]
                    /\ IF io = "encode"
                       THEN Exits(ExitRuntimeError, "encode", "none")
                       ELSE IF flags.drift /\ Len(comp.New) > 0
                       THEN Exits(1, "none", "comparison")
                       ELSE Exits(0, "none", "comparison")
       ELSE /\ UNCHANGED comparison
            /\ IF io = "encode"
               THEN Exits(ExitRuntimeError, "encode", "none")
               ELSE IF flags.export /\ io = "export"
               THEN Exits(ExitRuntimeError, "export", "problems")
               ELSE IF flags.failOn = <<>>
               THEN Exits(0, "none", "problems")
               ELSE IF ParseSeverity(flags.failOn).err
               THEN Exits(ExitRuntimeError, "severity", "problems")
               ELSE IF \E i \in DOMAIN cli.list :
                          AtLeast(cli.list[i].Severity, ParseSeverity(flags.failOn).sev)
               THEN Exits(1, "none", "problems")
               ELSE Exits(0, "none", "problems")
    /\ UNCHANGED <<regVars, flags, ui, stopChan, lastProbe, scored, now, storeVars, last,
                   healthVars, loopVars>>

\* The first merge that finds anything, while the command waits in its select.
MergeWaited == cli.pc = "select" /\ DOMAIN problems = {} /\ MergeCall

\* Time passes while the command waits in its select, which lasts no longer
\* than the 30 seconds of its timer (the statements after it take less than a
\* ticker period).
TickWaited == cli.pc = "select" /\ now - cli.t0 < JSONWaitSeconds /\ Tick

\* A JSON-mode run over the store: any flags, and any one batch merged
\* before the read.
NextGate ==
    \/ \E f \in FlagSets : ParseFlags(f)
    \/ Launch
    \/ MergeWaited
    \/ TickWaited
    \/ JSONSignalled
    \/ JSONTimedOut
    \/ JSONRead
    \/ \E io \in IOFailures, b \in BaselineFiles : JSONFinish(io, b)

SpecGate == InitStore /\ [][NextGate]_vars

\* The run has ended and --fail-on holds a severity.
GateConfigured == cli.pc = "exited" /\ ~ParseSeverity(flags.failOn).err

\* The severity --fail-on names.
Gate == ParseSeverity(flags.failOn).sev

\* C24: with a severity gate configured and --fail-on-drift not set, a run
\* whose reported problems are all strictly below the gate does not exit
\* with code 1.
C24_BelowGatePasses ==
    (/\ GateConfigured
     /\ ~flags.drift
     /\ \A i \in DOMAIN cli.list : Order(cli.list[i].Severity) < Order(Gate))
        => cli.exit # 1

\* C24 witness: gate FATAL, a CRITICAL and a WARNING problem reported, the
\* output printed and exit code 0.
C24_Witness ==
    /\ GateConfigured
    /\ ~flags.drift
    /\ Gate = "FATAL"
    /\ { cli.list[i].Severity : i \in DOMAIN cli.list } = {"WARNING", "CRITICAL"}
    /\ cli.printed = "problems"
    /\ cli.exit = 0

\* C25: a JSON-mode run in which no file or stream operation fails exits with
\* code 1 whenever a reported problem is at or above the configured gate, and
\* whenever --fail-on-drift is set and the comparison with the baseline finds
\* a new problem, whatever the other options are.
C25_GateExitsOne ==
    (/\ cli.pc = "exited"
     /\ cli.err = "none"
     /\ \/ /\ GateConfigured
           /\ \E i \in DOMAIN cli.list : Order(cli.list[i].Severity) >= Order(Gate)
        \/ /\ flags.drift
           /\ flags.compare
           /\ comparison.op = "compare"
           /\ Len(comparison.comp.New) > 0)
        => cli.exit = 1

\* ------------------------------------------------ JSON mode, watcher running
\* watcher.Start runs in the goroutine that runMonitor spawned.
StartLaunched == cli.pc \notin {"args", "setup", "exited"} /\ Start

\* A rule's goroutine takes a step while the process is running.
RuleRuns(r) == Alive /\ StepRunning(r)

\* A JSON-mode run with --fail-on, no baseline and no export file, the
\* watcher running its rules beside it.
NextJSON ==
    \/ \E f \in PlainFlagSets : ParseFlags(f)
    \/ Launch
    \/ StartLaunched
    \/ \E r \in Rules : RuleRuns(r)
    \/ TickWaited
    \/ JSONSignalled
    \/ JSONTimedOut
    \/ JSONRead
    \/ \E io \in IOFailures, b \in BaselineFiles : JSONFinish(io, b)

SpecJSON == InitStore /\ [][NextJSON]_vars

\* C26: when a run ends on the error of an unparseable --fail-on value,
\* nothing has been printed and no rule has begun to run.
C26_RejectedAtStartup ==
    (cli.pc = "exited" /\ cli.err = "severity") =>
        /\ cli.printed = "none"
        /\ main = "new"
        /\ \A r \in Rules : pc[r] = "idle"

\* C28: when runJSONMode reads the store, every registered rule has finished
\* its first execution.  Before the first tick of the rule loops every
\* execution is a first one, so until then a rule has finished it exactly
\* when it waits for its ticker.
C28_ReadAfterFirstCycle ==
    [][(cli.pc = "read" /\ cli'.pc = "run" /\ now = 0) =>
          \A r \in Rules : pc[r] = "wait"]_vars

\* ---------------------------------------------------- certificate detectors
\* A time.Duration is a count of nanoseconds, kept here as whole seconds and
\* the nanoseconds beyond them.  Second is time.Second, the nanoseconds of
\* one second.
Second == 1000000000

\* time.Duration(n): n nanoseconds.
Nanoseconds(n) == [sec |-> n \div Second, nsec |-> n % Second]

\* n * time.Second
Seconds(n) == [sec |-> n, nsec |-> 0]

NewLinkerdCertExpiryDetector ==
    [name |-> "servicemesh_linkerd_cert_expiry", interval |-> Seconds(certCheckInterval)]

NewIstioCertExpiryDetector ==
    [name |-> "servicemesh_istio_cert_expiry", interval |-> Seconds(certCheckInterval)]

\* interval: certCheckInterval, an untyped constant converted to a Duration.
NewTrustwatchCertExpiryDetector ==
    [name |-> "trustwatch_cert_expiry", interval |-> Nanoseconds(certCheckInterval)]

NewTrustwatchProbeFailureDetector ==
    [name |-> "trustwatch_probe_failure", interval |-> Nanoseconds(certCheckInterval)]

CertDetectors ==
    { NewLinkerdCertExpiryDetector, NewIstioCertExpiryDetector,
      NewTrustwatchCertExpiryDetector, NewTrustwatchProbeFailureDetector }

\* d.Interval()
Interval(d) == d.interval

\* registry.Register(detector.New...()) of registerDetectors.
RegisterCert(d) == Register(d)

\* ticker := time.NewTicker(d.Interval()) of runDetector, for a registered
\* detector: the period asked for.
NewTicker(name) ==
    /\ name \in DOMAIN detectors
    /\ answer' = [op |-> "interval", name |-> name, d |-> Interval(detectors[name])]
    /\ UNCHANGED <<detectors, regLog, comparison, flags, cli, ui, stopChan, lastProbe, scored, now,
                   storeVars, last, healthVars, loopVars>>

NextCerts ==
    \/ \E d \in CertDetectors : RegisterCert(d)
    \/ \E d \in CertDetectors : NewTicker(d.name)

SpecCerts == Init /\ [][NextCerts]_vars

\* C29: the Interval of every built-in certificate detector is 60 seconds,
\* the period of the ticker its loop runs on.
C29_CertIntervalSixty ==
    answer.op = "interval" => answer.d = [sec |-> 60, nsec |-> 0]

\* C30: when a rule's loop takes the tick that was pending on its ticker and
\* begins the next execution, no tick is left behind, however many periods
\* the execution before spanned: unless time passes again, no further
\* execution follows.
C30_NoCatchUp ==
    [][\A r \in Rules :
          (pc[r] = "wait" /\ pc'[r] = "acquire") => ~tickPending'[r]]_vars

\* C30 witness: the first execution of r1 returned at 60 seconds, the only
\* Detect call to have returned, with the ticker having fired meanwhile; r1
\* has begun its next execution at that same instant and no tick is pending
\* on its ticker.
C30_Witness ==
    /\ now = 2 * TickerSeconds
    /\ queryCount = 1
    /\ errorCount = 0
    /\ lastSuccessfulQuery = now
    /\ pc["r1"] = "acquire"
    /\ ~tickPending["r1"]
    /\ pc["r2"] = "detect"

\* ------------------------------------------------------------- termination
\* The watcher under the Go scheduler: a goroutine that can run does run, a
\* select returns when one of its cases is ready, a select that is entered
\* again and again with ctx.Done() ready takes that case in the end (the
\* choice among ready cases is uniformly random), a goroutine blocked in a
\* send on the semaphore is served when slots keep coming free (the runtime
\* queues blocked senders in order), and a Detect call that is in flight
\* returns.  The queries find nothing, so the store stays empty
\* and only the control of the loops is explored.
DetectsNothing(r) == DetectSucceeds(r) /\ found'[r] = <<>>

StepFair(r) ==
    \/ Acquire(r)
    \/ AcquireCancelled(r)
    \/ CheckHealth(r)
    \/ ProbeReturns(r)
    \/ DetectFails(r)
    \/ DetectsNothing(r)
    \/ Merge(r)
    \/ NextCycle(r)
    \/ LoopExits(r)

NextFair ==
    \/ Start
    \/ Cancel
    \/ MarkStopped
    \/ CloseChan
    \/ \E r \in Rules : StepFair(r)
    \/ Tick

Fairness ==
    /\ WF_vars(Start)
    /\ WF_vars(MarkStopped)
    /\ WF_vars(CloseChan)
    /\ \A r \in Rules :
          /\ WF_vars(Acquire(r) \/ AcquireCancelled(r))
          /\ SF_vars(Acquire(r))
          /\ WF_vars(CheckHealth(r))
          /\ WF_vars(ProbeReturns(r))
          /\ WF_vars(DetectFails(r) \/ DetectsNothing(r))
          /\ WF_vars(Merge(r))
          /\ SF_vars(LoopExits(r))

SpecFair == Init /\ [][NextFair]_vars /\ Fairness

\* C31: once the context is cancelled, every rule loop ends, Start returns
\* and the update channel is closed.
C31_CancelTerminates ==
    cancelled ~> (/\ \A r \in Rules : pc[r] = "done"
                  /\ main = "returned"
                  /\ closed)

\* C31 witness: with a limit of 1 the context was cancelled, one rule's
\* Detect call returned and the other rule left its wait for a slot through
\* ctx.Done(); both loops have ended, Start has returned and the update
\* channel is closed.
C31_Witness ==
    /\ maxConcurrency = 1
    /\ cancelled
    /\ queryCount = 1
    /\ \A r \in Rules : pc[r] = "done"
    /\ main = "returned"
    /\ closed

aside == <<regVars, comparison, flags, cli, stopChan, lastProbe, scored, now, healthVars,
           loopVars>>

\* waitForUpdate: <-watcher.UpdateChan() returns, with a signal or because
\* the channel is closed.
UIReceives ==
    /\ ui.cmd = "blocked"
    /\ updateChan > 0 \/ closed
    /\ IF updateChan > 0
       THEN updateChan' = updateChan - 1 /\ sinceDrain' = 0
       ELSE UNCHANGED <<updateChan, sinceDrain>>
    /\ ui' = [ui EXCEPT !.cmd = "received"]
    /\ last' = NoOp
    /\ UNCHANGED <<aside, problems, heap, exported, occ>>

\* waitForUpdate: return updateMsg{problems: watcher.GetProblems()}
UIFetches ==
    /\ ui.cmd = "received"
    /\ \E list \in SortedCopies("score") :
          ui' = [ui EXCEPT !.cmd = "sent", !.msg = list]
    /\ UNCHANGED <<aside, storeVars, last>>

\* Update, case updateMsg: m.problems = msg.problems, and waitForUpdate is
\* started again.
UpdateMsg ==
    /\ ui.cmd = "sent"
    /\ ui' = [ui EXCEPT !.cmd = "blocked", !.msg = <<>>, !.problems = ui.msg]
    /\ UNCHANGED <<aside, storeVars, last>>

\* A merge while the TUI runs, of a batch that a rule's query returns.
MergeShown ==
    \E r \in Rules : \E batch \in RuleBatches(r) :
        /\ Fits(batch)
        /\ UpdateProblems(batch)
        /\ UNCHANGED <<obsVars, now, healthVars, loopVars>>

\* The TUI as a consumer of the notifier alone: no key is pressed and the
\* refresh tick does not fire.
NextConsumer ==
    \/ MergeShown
    \/ TickStore
    \/ UIReceives
    \/ UIFetches
    \/ UpdateMsg

SpecConsumer == InitStore /\ [][NextConsumer]_vars

\* The list shows the store as it is: one element per entry, equal to it.
Shows(list) ==
    /\ Len(list) = Cardinality(DOMAIN problems)
    /\ \A id \in DOMAIN problems : \E i \in DOMAIN list : list[i] = problems[id]

\* C33: a consumer that has drained the notifier and then fetched the
\* problems holds the store as it is now, in the message on its way or in
\* the list displayed, or a signal is pending; and a signal is pending
\* whenever a merge has changed the store since the last drain.
C33_NoLostChange ==
    /\ sinceDrain >= 1 => updateChan >= 1
    /\ ui.cmd = "sent" => (Shows(ui.msg) \/ updateChan >= 1)
    /\ ui.cmd = "blocked" => (Shows(ui.problems) \/ updateChan >= 1)

\* C33 witness: the consumer drained and fetched while the store held an
\* entry seen once, a merge has since updated it, and a signal is pending.
C33_Witness ==
    /\ ui.cmd = "blocked"
    /\ Len(ui.problems) = 1
    /\ ui.problems[1].Count = 1
    /\ ui.problems[1].ID \in DOMAIN problems
    /\ problems[ui.problems[1].ID].Count = 2
    /\ sinceDrain = 1
    /\ updateChan = 1

\* C34: a merge that finds a stored ID again changes the entry's Count,
\* LastSeen, Metrics and Persistence and nothing else: Severity, BlastRadius,
\* the Labels and FirstSeen stay those of the first detection.
C34_RedetectKeepsFirst ==
    [][last'.op = "merge" =>
          \A id \in DOMAIN problems : last'.n[id] > 0 =>
              /\ id \in DOMAIN problems'
              /\ problems'[id].ID = problems[id].ID
              /\ problems'[id].Severity = problems[id].Severity
              /\ problems'[id].BlastRadius = problems[id].BlastRadius
              /\ problems'[id].FirstSeen = problems[id].FirstSeen
              /\ heap'[problems'[id].Labels] = heap[problems[id].Labels]
              /\ problems'[id].Count = problems[id].Count + last'.n[id]
              /\ problems'[id].LastSeen = now
              /\ problems'[id].Persistence = now - problems[id].FirstSeen]_vars

\* C34 witness: x was first detected as CRITICAL and has just been detected
\* again as FATAL: the entry is still CRITICAL with the first BlastRadius,
\* and its Metrics are those of the FATAL detection.
C34_Witness ==
    /\ last.op = "merge"
    /\ last.n["x"] = 1
    /\ "x" \in DOMAIN problems
    /\ problems["x"].Count = 2
    /\ problems["x"].Severity = "CRITICAL"
    /\ problems["x"].BlastRadius = 0
    /\ heap[problems["x"].Metrics] = MetricsOf(Sample("x", "FATAL", 5, 2))

\* The IDs that were stored and have been evicted: the list the TUI displays
\* still holds an entry for them and the store does not.
Evicted == { ui.problems[i].ID : i \in DOMAIN ui.problems } \ DOMAIN problems

Ready(r) ==
    \/ pc[r] = "acquire" /\ (maxConcurrency = 0 \/ semaphore < maxConcurrency)
    \/ pc[r] \in {"health", "merge"}
    \/ pc[r] = "wait" /\ tickPending[r]

\* A loop that waits in its select for the next tick of its own ticker.
AwaitsTick(r) == pc[r] = "wait" /\ ~tickPending[r]

StartEmptyCloses ==
    /\ main = "new"
    /\ DOMAIN detectors = {}
    /\ main' = "returned"
    /\ closed' = TRUE
    /\ last' = NoOp
    /\ UNCHANGED <<obsVars, now, storeVars, healthVars, maxConcurrency, semaphore, stopped,
                   cancelled, pc, found, tickPending>>

\* Start: detectors := w.registry.All(); if len(detectors) == 0 { return nil }
StartEmpty ==
    /\ main = "new"
    /\ DOMAIN detectors = {}
    /\ main' = "returned"
    /\ last' = NoOp
    /\ UNCHANGED <<obsVars, now, storeVars, healthVars, maxConcurrency, semaphore, stopped,
                   closed, cancelled, pc, found, tickPending>>

\* Start with a registry that holds a detector: the rule loops are spawned.
StartRegistered == DOMAIN detectors # {} /\ Start

\* registerDetectors, before the watcher is started; at most one detector
\* is registered here.
RegisterFirst(d) == main = "new" /\ regLog = <<>> /\ Register(d)

\* The watcher and the receive of the TUI's waitForUpdate, with a registry
\* that is empty or not; queries find nothing.
NextRegistered ==
    \/ \E d \in Detectors : RegisterFirst(d)
    \/ StartEmpty
    \/ StartRegistered
    \/ Cancel
    \/ MarkStopped
    \/ CloseChan
    \/ \E r \in Rules : StepFair(r)
    \/ Tick
    \/ UIReceives

SpecRegistered == Init /\ [][NextRegistered]_vars

\* C37: once Start has been called on an empty registry it has returned, with
\* or without cancellation, no rule loop exists, the notifier holds no signal
\* and is not closed, and waitForUpdate is still blocked on it.
C37_EmptyRegistryIdle ==
    (main # "new" /\ DOMAIN detectors = {}) =>
        /\ main = "returned"
        /\ ~stopped
        /\ \A r \in Rules : pc[r] = "idle"
        /\ updateChan = 0
        /\ ~closed
        /\ ui.cmd = "blocked"

\* C37 witness: Start has returned on an empty registry, the context is not
\* cancelled, a tick has gone by and waitForUpdate is blocked.
C37_Witness ==
    /\ DOMAIN detectors = {}
    /\ main = "returned"
    /\ ~cancelled
    /\ now >= TickerSeconds
    /\ updateChan = 0
    /\ ~closed
    /\ ui.cmd = "blocked"

\* ------------------------------------------------------------------ Stop
\* Stop: close(w.stopChan). It is called once; a second close of the channel
\* panics.
Stop ==
    /\ stopChan = "open"
    /\ stopChan' = "closed"
    /\ UNCHANGED <<regVars, comparison, flags, cli, ui, lastProbe, scored, now, storeVars,
                   last, healthVars, loopVars>>

\* The watcher with a caller that may call Stop and may cancel the context.
NextStopped ==
    \/ NextFair
    \/ Stop

SpecStopped == Init /\ [][NextStopped]_vars /\ Fairness

\* C38 as claimed: once Stop has been called on a running watcher, Start
\* returns, whether or not the context is cancelled.
C38_StopTerminates ==
    (stopChan = "closed" /\ main = "waiting") ~> main = "returned"

\* ------------------------------------------------------------------- TUI
\* SortMode: SortBySeverity, SortByRecency, SortByCount (iota).
SortBySeverity == 0

SortByRecency == 1

SortByCount == 2

\* The store's export that Model.updateProblems calls for a sort mode:
\* GetProblems, GetProblemsByRecency, GetProblemsByCount.
SortName(mode) ==
    CASE mode = SortBySeverity -> "score"
      [] mode = SortByRecency -> "recency"
      [] mode = SortByCount -> "count"

\* strings.ToLower
ToLower(s) ==
    [i \in DOMAIN s |->
        IF \E k \in DOMAIN UpperCase : UpperCase[k] = s[i]
        THEN LowerCase[CHOOSE k \in DOMAIN UpperCase : UpperCase[k] = s[i]]
        ELSE s[i]]

\* strings.Contains
Contains(s, substr) ==
    \E i \in 0..(Len(s) - Len(substr)) : SubSeq(s, i + 1, i + Len(substr)) = substr

\* string(p.Severity), character by character.
SeverityText(sev) ==
    CASE sev = "FATAL" -> <<"F", "A", "T", "A", "L">>
      [] sev = "CRITICAL" -> <<"C", "R", "I", "T", "I", "C", "A", "L">>
      [] sev = "WARNING" -> <<"W", "A", "R", "N", "I", "N", "G">>

\* The texts updateProblems searches: Entity, Title, Message, Type and
\* Severity. The Problems of the model carry empty Entity, Title, Message and
\* Type.
Searched(p) == <<<<>>, <<>>, <<>>, <<>>, SeverityText(p.Severity)>>

\* The condition of updateProblems' filter loop; query is already lower case.
Matches(p, query) ==
    \E k \in DOMAIN Searched(p) : Contains(ToLower(Searched(p)[k]), query)

Selected(l, query) ==
    LET F[n \in 0..Len(l)] ==
            IF n = 0 THEN <<>>
            ELSE IF Matches(l[n], query) THEN Append(F[n - 1], l[n]) ELSE F[n - 1]
    IN F[Len(l)]

\* Model.updateProblems: the Models it can leave, one for each order the
\* store's export can return.
ModelUpdateProblems(m) ==
    { IF m.searchQuery # <<>>
      THEN [m EXCEPT !.problems = Selected(all, ToLower(m.searchQuery)),
                     !.filteredCount =
                         Len(all) - Len(Selected(all, ToLower(m.searchQuery)))]
      ELSE [m EXCEPT !.problems = all, !.filteredCount = 0] :
          all \in SortedCopies(SortName(m.sortMode)) }

\* Update, case tea.KeyMsg, for the keys that change the Model.
KeyMsg(key) ==
    /\ IF ui.searchMode
       THEN CASE key \in {"esc", "ctrl+c"} ->
                     ui' \in ModelUpdateProblems(
                                 [ui EXCEPT !.searchMode = FALSE, !.searchQuery = <<>>])
              [] key = "enter" ->
                     ui' \in ModelUpdateProblems([ui EXCEPT !.searchMode = FALSE])
              [] key = "backspace" ->
                     IF Len(ui.searchQuery) > 0
                     THEN ui' \in ModelUpdateProblems(
                                 [ui EXCEPT !.searchQuery =
                                     SubSeq(ui.searchQuery, 1, Len(ui.searchQuery) - 1)])
                     ELSE ui' = ui
              [] OTHER ->
                     /\ Len(ui.searchQuery) < MaxQuery
                     /\ ui' \in ModelUpdateProblems(
                                 [ui EXCEPT !.searchQuery = Append(ui.searchQuery, key)])
       ELSE CASE key \in {"p", " "} -> ui' = [ui EXCEPT !.paused = ~ui.paused]
              [] key = "s" ->
                     ui' \in ModelUpdateProblems(
                                 [ui EXCEPT !.sortMode = (ui.sortMode + 1) % 3])
              [] key = "/" ->
                     ui' = [ui EXCEPT !.searchMode = TRUE, !.searchQuery = <<>>]
              [] key = "esc" ->
                     ui' \in ModelUpdateProblems([ui EXCEPT !.searchQuery = <<>>])
              [] OTHER -> ui' = ui
    /\ UNCHANGED <<aside, storeVars, last>>

\* Update, case tickMsg.
TickMsg ==
    /\ IF ~ui.paused THEN ui' \in ModelUpdateProblems(ui) ELSE ui' = ui
    /\ UNCHANGED <<aside, storeVars, last>>

\* The keys pressed: in search mode the editing keys and one character, in
\* normal mode the keys with a case of their own that changes the Model.
Keys == IF ui.searchMode THEN {"esc", "enter", "backspace", "W"}
        ELSE {"p", "s", "/", "esc"}

\* A merge while the TUI runs, of one Problem of either ID.
MergeFound ==
    \E s \in {Sample("x", "CRITICAL", 0, 1), Sample("y", "WARNING", 1, 1)} :
        /\ Fits(<<s>>)
        /\ UpdateProblems(<<s>>)
        /\ UNCHANGED <<obsVars, now, healthVars, loopVars>>

\* The TUI over a store that rules merge into, within one ticker period.
NextTUI ==
    \/ MergeFound
    \/ UIReceives
    \/ UIFetches
    \/ UpdateMsg
    \/ TickMsg
    \/ \E key \in Keys : KeyMsg(key)

SpecTUI == InitStore /\ [][NextTUI]_vars

\* C39 as claimed: the displayed list is in the order of the selected sort
\* mode and every entry of it matches the search query, when there is one.
C39_DisplayedSortedFiltered ==
    /\ \A i, j \in DOMAIN ui.problems :
          i < j => RankKey(SortName(ui.sortMode), ui.problems[i])
                       >= RankKey(SortName(ui.sortMode), ui.problems[j])
    /\ ui.searchQuery # <<>> =>
          \A i \in DOMAIN ui.problems : Matches(ui.problems[i], ToLower(ui.searchQuery))

\* ------------------------------------------------------ eviction progress
\* C40: a cycle of any rule that completes with a merge removes every entry
\* that was last seen more than a minute before and is not in the merged
\* batch; a cycle that ends with a failed Detect leaves every entry in the
\* store, however old.
C40_EvictionProgress ==
    [][\A r \in Rules :
          /\ (pc[r] = "merge" /\ pc'[r] = "wait") =>
                \A id \in DOMAIN problems :
                    (/\ now - problems[id].LastSeen > StaleSeconds
                     /\ Occurrences(found[r], id) = 0)
                        => id \notin DOMAIN problems'
          /\ (pc[r] = "detect" /\ pc'[r] = "wait") =>
                /\ DOMAIN problems' = DOMAIN problems
                /\ \A id \in DOMAIN problems : problems'[id] = problems[id]]_vars

\* C40 witness: x was stored at time 0 and not detected again; a cycle
\* failed, and the merge of a successful cycle at 90 seconds has just
\* evicted x.
C40_Witness ==
    /\ now = 3 * TickerSeconds
    /\ errorCount >= 1
    /\ lastSuccessfulQuery = now
    /\ last.op = "merge"
    /\ last.evicted = {"x"}
    /\ "x" \notin DOMAIN problems

====
